---- MODULE Spec2Model ----
(***************************************************************************)
(* The proxy launch button of the launcher frontend                        *)
(* (src/src/components/proxy/launch-button.tsx) as a state machine.        *)
(*                                                                         *)
(* One step of the model is one turn of the UI event loop: a user click,   *)
(* the delivery of a backend event to a listener, or the resolution of an  *)
(* awaited backend call (the continuation of an async function up to its   *)
(* next await).  React state setters called in one turn are applied        *)
(* together.  The backend is opaque: every awaited command may resolve     *)
(* with any value of its type or reject, and events arrive in any order.   *)
(***************************************************************************)
EXTENDS Integers, Sequences, FiniteSets, TLC

\* ---------------------------------------------------------------- bounds
\* handle() invocations that may be in flight at once
MaxClicks == 1
\* updater:status "launched" handlers that may be suspended in config.get()
MaxPending == 1
\* lines the log buffer may hold in the model
MaxLogs == 1
\* lines the log buffer may hold when the log view is checked
MaxViewLogs == 2
\* set_config_key calls of the settings view that may be in flight at once
MaxWrites == 2
\* handleLogout() invocations that may be in flight at once
MaxLogouts == 1
\* discord-auth-result events a call of startDiscordAuth() may be sent
MaxAuthEvents == 2
\* handle() invocations that may be in flight at once when clicks race with
\* status events
MaxRacing == 2

\* the seconds the Enable Beta dialog and the restart dialog count down
BetaCountdown == 15
RestartCountdown == 5

\* ---------------------------------------------------------------- types
ProxyStates ==
    {"unknown", "running", "checking", "downloading", "error", "stopping", "stopped"}

StatusEvents == {"checking", "downloading", "launching", "launched", "error"}

TabIds == {"home", "logs", "stats", "settings"}

\* values of localStorage "active-tab" the model starts from
SavedTabs == {"home"}

\* payloads of updater:progress used as inputs
ProgressPayloads ==
    { [downloaded |-> 1000, total |-> 10000, speed |-> 500] }

\* lines of log-message used as inputs
LogLines == {"[INFO] started"}

\* what a backend command can do when awaited
Throw == "throw"
Ok == "ok"

\* answers of the get_config command: no config stored, a stored config, a rejection
ConfigResponses ==
    {[kind |-> "null"], [kind |-> Throw]}
        \cup {[kind |-> "config", openLogsOnLaunch |-> b, receiveBetaReleases |-> r] :
                 b \in BOOLEAN, r \in BOOLEAN}

defaultSettings ==
    [kind |-> "config", openLogsOnLaunch |-> TRUE, receiveBetaReleases |-> FALSE]

\* config.get(): the stored config, else the defaults after saving them;
\* a rejection of get_config or of save_config propagates.
ConfigGet(getResp, saveResp) ==
    IF getResp.kind = Throw THEN [kind |-> Throw]
    ELSE IF getResp.kind # "null" THEN getResp
    ELSE IF saveResp = Throw THEN [kind |-> Throw]
    ELSE defaultSettings

\* what an await of config.get() can yield
ConfigResults == {ConfigGet(g, s) : g \in ConfigResponses, s \in {Ok, Throw}}

\* toggleTab of the render in which activeTab was `captured`
ToggleTab(captured, tab) ==
    IF tab = "home" THEN "home"
    ELSE IF captured = tab THEN "home"
    ELSE tab

\* Math.round((downloaded / total) * 100)
Percent(p) == (200 * p.downloaded + p.total) \div (2 * p.total)

VARIABLES
    state,          \* ProxyState shown by the button
    busy,           \* busy flag
    statusText,     \* "null", "Downloading" or "Error"
    progress,       \* <<>> (null) or <<DownloadProgress>>
    user,           \* <<>> (null) or <<[isBanned |-> BOOLEAN]>>
    userPoll,       \* mount effect get_user: "pending" or "done"
    statusPoll,     \* mount effect get_proxy_status: "pending" or "done"
    logs,           \* the log buffer of useLogs
    activeTab,      \* active tab of the TabsProvider
    mountTab,       \* activeTab seen by the listeners' closure (effect deps [])
    inv,            \* handle() invocations, by order of their click
    pendingLaunched,\* "launched" handlers suspended in config.get()
    lastEv,         \* history: latest state-setting status event since the last
                    \* state change made by the component itself
    proxyError,     \* <<>> (null) or <<ProxyError>>: the error the dialog shows
    evSinceClose,   \* history: severities of the proxy-error events received
                    \* since the dialog was last closed
    enabledLevels,  \* log view: the log levels whose lines are shown
    sConfig,        \* settings view: config, <<>> (null) or <<Config>>
    sUser,          \* settings view: user, "null", "member" or "tester"
    sUserLoad,      \* settings view: mount effect get_user, "pending" or "done"
    sCfgLoad,       \* settings view: mount effect config.get(), "pending" or "done"
    savingKey,      \* settings view: "null" or the key being saved
    writes,         \* updateSetting invocations suspended in setValue
    lastSettled,    \* history: how the write that settled last ended
    lastWritten,    \* history: <<>> or the config first shown with, for every
                    \* key written since, the value of the last write that succeeded
    restartPending, \* settings view: the restart dialog is open
    enableBetaDialogOpen,
    pendingBetaValue,   \* <<>> (null) or <<BOOLEAN>>
    betaCountdown,  \* Enable Beta dialog: countdown
    continueEnabled,\* Enable Beta dialog: continueEnabled
    rLoading,       \* restart dialog: loading
    proxyRunning,   \* restart dialog: proxyRunning
    rCountdown,     \* restart dialog: countdown
    notNowEnabled,  \* restart dialog: notNowEnabled
    rCheck,         \* restart dialog: checkProxy(), "none" or "pending"
    rPc,            \* restart dialog: where handleRestart() is
    step,           \* onboarding: the step shown
    hasValidToken,  \* onboarding: "null", "true" or "false"
    obToken,        \* onboarding: the text of the token input
    obLoading,      \* onboarding: loading
    actionLoading,  \* onboarding: actionLoading
    actionError,    \* onboarding: actionError
    obTheme,        \* onboarding: the theme picked
    tokenCheck,     \* onboarding: mount effect token_exists, "pending" or "done"
    verifying,      \* onboarding: a handleVerify() is suspended in verify_token
    onboarded,      \* the onboarding has finished and is unmounted
    mounted,        \* the launch button is mounted
    subs,           \* the launch button's event subscriptions, by channel
    lateCh,         \* history: the channel of the event this step delivered to
                    \* the unmounted launch button, else "none"
    tokenStored,    \* localStorage holds an authToken
    isLoggingOut,   \* user button: isLoggingOut
    lo,             \* handleLogout() invocations, by order of their click
    aPc,            \* startDiscordAuth(): the await its executor is suspended on
    aListening,     \* startDiscordAuth(): its listener is registered
    aHandlers,      \* startDiscordAuth(): the handlers of the events, by arrival
    authOutcome,    \* <<>> (pending) or <<DiscordAuthOutcome>>: what it resolved with
    verified,       \* history: the tokens verify_token returned success for
    saved,          \* history: the tokens save_token completed for
    authFailed      \* history: one of the failure cases has happened

\* the launch button's own state, the log store and the tabs
buttonVars == <<state, busy, statusText, progress, user, userPoll, statusPoll, logs,
                activeTab, mountTab, inv, pendingLaunched, lastEv>>

\* the proxy error dialog the launch button renders
dialogVars == <<proxyError, evSinceClose>>

\* the log view
logViewVars == <<enabledLevels>>

\* the launch button's state without the log buffer
buttonOnly == <<state, busy, statusText, progress, user, userPoll, statusPoll,
                activeTab, mountTab, inv, pendingLaunched, lastEv>>

\* the settings view
settingsVars ==
    <<sConfig, sUser, sUserLoad, sCfgLoad, savingKey, writes, lastSettled, lastWritten>>

\* the Enable Beta dialog of the settings view
betaVars == <<enableBetaDialogOpen, pendingBetaValue, betaCountdown, continueEnabled>>

\* the restart dialog of the settings view
restartVars == <<restartPending, rLoading, proxyRunning, rCountdown, notNowEnabled,
                 rCheck, rPc>>

\* the onboarding
onboardingVars == <<step, hasValidToken, obToken, obLoading, actionLoading, actionError,
                    obTheme, tokenCheck, verifying, onboarded>>

\* the user button, the stored token and the life of the launch button's
\* subscriptions
sessionVars == <<mounted, subs, lateCh, tokenStored, isLoggingOut, lo>>

\* a call of startDiscordAuth()
authVars == <<aPc, aListening, aHandlers, authOutcome, verified, saved, authFailed>>

\* what the steps of the launch button, of its error dialog, of the log view,
\* of the settings view and of the onboarding leave alone
outsideButton ==
    <<dialogVars, logViewVars, settingsVars, betaVars, restartVars, onboardingVars,
      sessionVars, authVars>>
outsideDialog ==
    <<buttonVars, logViewVars, settingsVars, betaVars, restartVars, onboardingVars,
      sessionVars, authVars>>
outsideLogView ==
    <<buttonOnly, dialogVars, settingsVars, betaVars, restartVars, onboardingVars,
      sessionVars, authVars>>
outsideSettings ==
    <<buttonVars, dialogVars, logViewVars, onboardingVars, sessionVars, authVars>>
outsideOnboarding ==
    <<buttonVars, dialogVars, logViewVars, settingsVars, betaVars, restartVars,
      sessionVars, authVars>>

\* what the steps of a logout and of the unmounted launch button leave alone
outsideSession == <<logViewVars, settingsVars, betaVars, restartVars, authVars>>

\* what the steps of startDiscordAuth() leave alone
outsideAuth ==
    <<buttonVars, dialogVars, logViewVars, settingsVars, betaVars, restartVars,
      onboardingVars, sessionVars>>

vars == <<buttonVars, outsideButton>>

\* the invocations of handle() the model keeps
Clicks == DOMAIN inv

\* An invocation of handle(): pc is the await it is suspended on ("status",
\* "cfgStart", "launch", "stop", "cfgStop") or how it ended ("done", "failed");
\* tab is the activeTab of the render whose handle() the click called, kept
\* while the stop branch can still read it.  view (the state shown when the
\* click came, dropped once launch_proxy has been issued) and polled (what get_proxy_status answered) are history.
NoInvocation == [pc |-> "none", tab |-> "home", view |-> "unknown", polled |-> "none"]

Ended == {"none", "done", "failed"}

\* the launch button mounts while the tabs provider, which starts from the
\* saved tab, has `tab` active; the model keeps `slots` invocations of handle()
InitButtonAt(tab, slots) ==
    /\ state = "unknown"
    /\ busy = FALSE
    /\ statusText = "null"
    /\ progress = <<>>
    /\ user = <<>>
    /\ userPoll = "pending"
    /\ statusPoll = "pending"
    /\ logs = <<>>
    /\ activeTab = tab
    /\ mountTab = activeTab
    /\ inv = [i \in 1 .. slots |-> NoInvocation]
    /\ pendingLaunched = 0
    /\ lastEv = "none"

InitButton == \E tab \in SavedTabs : InitButtonAt(tab, MaxClicks)

InitDialog ==
    /\ proxyError = <<>>
    /\ evSinceClose = {}

\* the levels of the log view
LOG_LEVELS == {"DEBUG", "INFO", "WARN", "ERROR"}

\* without a saved set: all except DEBUG
InitLogView == enabledLevels = LOG_LEVELS \ {"DEBUG"}

InitSettings ==
    /\ sConfig = <<>>
    /\ sUser = "null"
    /\ sUserLoad = "pending"
    /\ sCfgLoad = "pending"
    /\ savingKey = "null"
    /\ writes = {}
    /\ lastSettled = "none"
    /\ lastWritten = <<>>
    /\ restartPending = FALSE
    /\ enableBetaDialogOpen = FALSE
    /\ pendingBetaValue = <<>>
    /\ betaCountdown = BetaCountdown
    /\ continueEnabled = FALSE
    /\ rLoading = FALSE
    /\ proxyRunning = FALSE
    /\ rCountdown = RestartCountdown
    /\ notNowEnabled = FALSE
    /\ rCheck = "none"
    /\ rPc = "none"

\* the themes the onboarding can start from and offers
Themes == {"system", "dark", "light"}

InitOnboarding ==
    /\ step = "welcome"
    /\ hasValidToken = "null"
    /\ obToken = ""
    /\ obLoading = TRUE
    /\ actionLoading = FALSE
    /\ actionError = FALSE
    /\ obTheme \in Themes
    /\ tokenCheck = "pending"
    /\ verifying = FALSE
    /\ onboarded = FALSE

\* the channels the launch button listens to
Channels == {"updater:status", "updater:progress", "proxy-error"}

Logouts == 1 .. MaxLogouts

\* An invocation of handleLogout(): pc is the await it is suspended on
\* ("status", "stop", "delete") or how it ended; polled (what get_proxy_status
\* answered), stopped and deleted (how stop_proxy and delete_token settled)
\* are history.
NoLogout == [pc |-> "none", polled |-> "none", stopped |-> "none", deleted |-> "none"]

\* the launch button has called listen() for its channels; a token is stored
InitSession ==
    /\ mounted = TRUE
    /\ subs = [ch \in Channels |-> "listening"]
    /\ lateCh = "none"
    /\ tokenStored = TRUE
    /\ isLoggingOut = FALSE
    /\ lo = [i \in Logouts |-> NoLogout]

AuthEvents == 1 .. MaxAuthEvents

\* no handler of a discord-auth-result event
NoHandler == [pc |-> "none", token |-> ""]

\* startDiscordAuth() has not been called
InitAuth ==
    /\ aPc = "none"
    /\ aListening = FALSE
    /\ aHandlers = [k \in AuthEvents |-> NoHandler]
    /\ authOutcome = <<>>
    /\ verified = {}
    /\ saved = {}
    /\ authFailed = FALSE

\* the state the launcher frontend starts in, with the theme "system"
Init ==
    /\ InitButton /\ InitDialog /\ InitLogView /\ InitSettings /\ InitOnboarding
    /\ InitSession /\ InitAuth
    /\ obTheme = "system"

\* ------------------------------------------------------- mount effects

\* u.data of a get_user answer: null or a User
UserResponses == {<<>>, <<[isBanned |-> FALSE]>>, <<[isBanned |-> TRUE]>>}

\* .then((u) => setUser(u.data)).catch(() => setUser(null))
UserResult(outcome, data) == IF outcome = Throw THEN <<>> ELSE data

UserResults == {UserResult(o, d) : o \in {Ok, Throw}, d \in UserResponses}

\* the mount effect invoke("get_user") settled
PollUser ==
    /\ UNCHANGED outsideButton
    /\ userPoll = "pending"
    /\ \E r \in UserResults : user' = r
    /\ userPoll' = "done"
    /\ UNCHANGED <<state, busy, statusText, progress, statusPoll, logs, activeTab,
                   mountTab, inv, pendingLaunched, lastEv>>

\* mutant: a failed mount poll is surfaced as an error
MountState_ThrowShowsError(r) ==
    IF r = "true" THEN "running" ELSE IF r = "false" THEN "stopped" ELSE "error"

\* the state the mount poll of get_proxy_status sets
MountState(r) == IF r = "true" THEN "running" ELSE "stopped"

PollStatus ==
    /\ UNCHANGED outsideButton
    /\ statusPoll = "pending"
    /\ \E r \in {"true", "false", Throw} : state' = MountState(r)
    /\ statusPoll' = "done"
    /\ lastEv' = "none"
    /\ UNCHANGED <<busy, statusText, progress, user, userPoll, logs, activeTab,
                   mountTab, inv, pendingLaunched>>

\* ------------------------------------------------------- the click handler

\* mutant: the guard forgets the busy flag
ClickBlocked_IgnoresBusy ==
    \/ state = "unknown"
    \/ user = <<>>
    \/ user[1].isBanned

\* the button's disabled attribute and the guard that opens handle()
ClickBlocked ==
    \/ state = "unknown"
    \/ busy
    \/ user = <<>>
    \/ user[1].isBanned

FreeSlots == {i \in Clicks : inv[i].pc \in Ended}

\* onClick={handle}: the guard, setBusy(true), setStatusText(null), and the
\* call of get_proxy_status, on which the invocation suspends.
Click ==
    IF ClickBlocked
    THEN UNCHANGED vars
    ELSE /\ FreeSlots # {}
         /\ LET i == CHOOSE k \in FreeSlots : \A j \in FreeSlots : k <= j
            IN inv' = [inv EXCEPT ![i] =
                          [pc |-> "status", tab |-> activeTab, view |-> state,
                           polled |-> "none"]]
         /\ UNCHANGED outsideButton
         /\ busy' = TRUE
         /\ statusText' = "null"
         /\ UNCHANGED <<state, progress, user, userPoll, statusPoll, logs, activeTab,
                        mountTab, pendingLaunched, lastEv>>

\* mutant: the catch block leaves the busy flag set
Catch_KeepsBusy == [busy |-> busy, state |-> "error", statusText |-> "Error"]

\* the catch block of handle()
Catch == [busy |-> FALSE, state |-> "error", statusText |-> "Error"]

\* an awaited call of invocation i rejected: the catch block runs and handle() ends
Rejected(i) ==
    /\ busy' = Catch.busy
    /\ state' = Catch.state
    /\ statusText' = Catch.statusText
    /\ inv' = [inv EXCEPT ![i] = [NoInvocation EXCEPT !.pc = "failed"]]
    /\ lastEv' = "none"
    /\ UNCHANGED <<progress, user, userPoll, statusPoll, logs, activeTab, mountTab,
                   pendingLaunched>>

\* mutant: the branches are taken the wrong way round
PollBranch_Swapped(running) ==
    IF running
    THEN [state |-> "checking", clear |-> TRUE, pc |-> "cfgStart"]
    ELSE [state |-> "stopping", clear |-> FALSE, pc |-> "stop"]

\* mutant: the stop branch clears the log buffer before stop_proxy is called
PollBranch_ClearsOnStop(running) ==
    IF ~running
    THEN [state |-> "checking", clear |-> TRUE, pc |-> "cfgStart"]
    ELSE [state |-> "stopping", clear |-> TRUE, pc |-> "stop"]

\* mutant: the branches do not set the state
PollBranch_KeepsState(running) ==
    IF ~running
    THEN [state |-> state, clear |-> TRUE, pc |-> "cfgStart"]
    ELSE [state |-> state, clear |-> FALSE, pc |-> "stop"]

\* the branch handle() takes on the polled status: the state it shows, whether
\* it clears the log buffer, and the await it reaches next
PollBranch(running) ==
    IF ~running
    THEN [state |-> "checking", clear |-> TRUE, pc |-> "cfgStart"]
    ELSE [state |-> "stopping", clear |-> FALSE, pc |-> "stop"]

\* the command in flight while an invocation is suspended at `pc`
CommandAt(pc) ==
    IF pc = "launch" THEN "launch_proxy"
    ELSE IF pc = "stop" THEN "stop_proxy"
    ELSE "none"

\* get_proxy_status of invocation i resolved
StatusResolve(i) ==
    /\ UNCHANGED outsideButton
    /\ inv[i].pc = "status"
    /\ \E r \in {"true", "false", Throw} :
          IF r = Throw
          THEN Rejected(i)
          ELSE LET b == PollBranch(r = "true") IN
               /\ state' = b.state
               /\ logs' = IF b.clear THEN <<>> ELSE logs
               /\ inv' = [inv EXCEPT ![i].pc = b.pc, ![i].polled = r,
                                     ![i].tab = IF b.pc = "stop" THEN @ ELSE "home"]
               /\ lastEv' = "none"
               /\ UNCHANGED <<busy, statusText, progress, user, userPoll, statusPoll,
                              activeTab, mountTab, pendingLaunched>>

\* start branch: config.get() resolved; launch_proxy is issued
CfgStartResolve(i) ==
    /\ UNCHANGED outsideButton
    /\ inv[i].pc = "cfgStart"
    /\ \E cfg \in ConfigResults :
          IF cfg.kind = Throw
          THEN Rejected(i)
          ELSE /\ inv' = [inv EXCEPT ![i].pc = "launch", ![i].view = "unknown"]
               /\ UNCHANGED <<state, busy, statusText, progress, user, userPoll,
                              statusPoll, logs, activeTab, mountTab, pendingLaunched,
                              lastEv>>

\* start branch: launch_proxy resolved; handle() ends without touching the state
LaunchResolve(i) ==
    /\ UNCHANGED outsideButton
    /\ inv[i].pc = "launch"
    /\ \E r \in {Ok, Throw} :
          IF r = Throw
          THEN Rejected(i)
          ELSE /\ inv' = [inv EXCEPT ![i] = [NoInvocation EXCEPT !.pc = "done"]]
               /\ UNCHANGED <<state, busy, statusText, progress, user, userPoll,
                              statusPoll, logs, activeTab, mountTab, pendingLaunched,
                              lastEv>>

\* mutant: setState("stopped") is missing
Stopped_KeepsState == [state |-> state, busy |-> FALSE, statusText |-> "null"]

\* mutant: setBusy(false) is missing
Stopped_KeepsBusy == [state |-> "stopped", busy |-> busy, statusText |-> "null"]

\* what handle() sets once stop_proxy has resolved
Stopped == [state |-> "stopped", busy |-> FALSE, statusText |-> "null"]

\* stop branch: stop_proxy resolved
StopResolve(i) ==
    /\ UNCHANGED outsideButton
    /\ inv[i].pc = "stop"
    /\ \E r \in {Ok, Throw} :
          IF r = Throw
          THEN Rejected(i)
          ELSE /\ state' = Stopped.state
               /\ busy' = Stopped.busy
               /\ statusText' = Stopped.statusText
               /\ logs' = <<>>
               /\ inv' = [inv EXCEPT ![i].pc = "cfgStop"]
               /\ lastEv' = "none"
               /\ UNCHANGED <<progress, user, userPoll, statusPoll, activeTab, mountTab,
                              pendingLaunched>>

\* stop branch: config.get() resolved; the logs tab the click saw open is closed
CfgStopResolve(i) ==
    /\ UNCHANGED outsideButton
    /\ inv[i].pc = "cfgStop"
    /\ \E cfg \in ConfigResults :
          IF cfg.kind = Throw
          THEN Rejected(i)
          ELSE /\ activeTab' = IF cfg.openLogsOnLaunch /\ inv[i].tab = "logs"
                               THEN ToggleTab(inv[i].tab, "logs")
                               ELSE activeTab
               /\ inv' = [inv EXCEPT ![i] = [NoInvocation EXCEPT !.pc = "done"]]
               /\ UNCHANGED <<state, busy, statusText, progress, user, userPoll,
                              statusPoll, logs, mountTab, pendingLaunched, lastEv>>

\* ------------------------------------------------------- the listeners

\* what the updater:status listener sets at once for a status; "launched"
\* sets nothing before its config read, "launching" nothing at all
OnStatus(e) ==
    [state      |-> IF e \in {"checking", "downloading", "error"} THEN e ELSE state,
     statusText |-> IF e = "downloading" THEN "Downloading"
                    ELSE IF e = "error" THEN "Error" ELSE statusText,
     busy       |-> IF e = "error" THEN FALSE ELSE busy,
     progress   |-> IF e \in {"checking", "downloading"} THEN <<>> ELSE progress]

\* delivery of an updater:status event
StatusEvent ==
    \E e \in StatusEvents :
       /\ UNCHANGED outsideButton
       /\ e = "launched" => pendingLaunched < MaxPending
       /\ state' = OnStatus(e).state
       /\ statusText' = OnStatus(e).statusText
       /\ busy' = OnStatus(e).busy
       /\ progress' = OnStatus(e).progress
       /\ pendingLaunched' = IF e = "launched" THEN pendingLaunched + 1
                             ELSE pendingLaunched
       /\ lastEv' = IF e = "launching" THEN lastEv ELSE e
       /\ UNCHANGED <<user, userPoll, statusPoll, logs, activeTab, mountTab, inv>>

\* what a "launched" handler sets once its config read has resolved
Launched == [state |-> "running", busy |-> FALSE, progress |-> <<>>]

\* the config read of a "launched" handler yielded cfg; a rejection ends the
\* handler (nothing catches it) and sets nothing
LaunchedCfgResolved(cfg) ==
    /\ UNCHANGED outsideButton
    /\ pendingLaunched > 0
    /\ pendingLaunched' = pendingLaunched - 1
    /\ IF cfg.kind = Throw
       THEN UNCHANGED <<state, busy, statusText, progress, user, userPoll,
                        statusPoll, logs, activeTab, mountTab, inv, lastEv>>
       ELSE /\ activeTab' = IF cfg.openLogsOnLaunch /\ mountTab # "logs"
                            THEN ToggleTab(mountTab, "logs")
                            ELSE activeTab
            /\ state' = Launched.state
            /\ busy' = Launched.busy
            /\ progress' = Launched.progress
            /\ UNCHANGED <<statusText, user, userPoll, statusPoll, logs, mountTab,
                           inv, lastEv>>

\* the config read of a "launched" handler resolved or rejected
LaunchedCfgResolve == \E cfg \in ConfigResults : LaunchedCfgResolved(cfg)

\* delivery of an updater:progress event
ProgressEvent ==
    /\ UNCHANGED outsideButton
    /\ \E p \in ProgressPayloads : progress' = <<p>>
    /\ UNCHANGED <<state, busy, statusText, user, userPoll, statusPoll, logs,
                   activeTab, mountTab, inv, pendingLaunched, lastEv>>

\* delivery of a log-message event to the log store
LogMessage ==
    /\ UNCHANGED outsideButton
    /\ Len(logs) < MaxLogs
    /\ \E l \in LogLines : logs' = Append(logs, l)
    /\ UNCHANGED <<state, busy, statusText, progress, user, userPoll, statusPoll,
                   activeTab, mountTab, inv, pendingLaunched, lastEv>>

\* the clear button of the log view: useLogs.getState().clear()
ClearLogs ==
    /\ UNCHANGED outsideButton
    /\ logs' = <<>>
    /\ UNCHANGED <<state, busy, statusText, progress, user, userPoll, statusPoll,
                   activeTab, mountTab, inv, pendingLaunched, lastEv>>

\* ------------------------------------------------------- the log view

\* A line of the log view is a sequence of tokens: a bracketed tag, an ANSI
\* colour sequence, or text without either.
AnsiTokens == {"ESC[32m", "ESC[0m"}

\* lines of log-message used as inputs of the log view
ViewLogLines ==
    { <<"[DEBUG]", "tick">>, <<"[INFO]", "started">>, <<"[WARN]", "slow">>,
      <<"[WARNING]", "slow">>, <<"[ERROR]", "crashed">>, <<"plain">>,
      <<"[TRACE]", "x">>, <<"ESC[32m", "[info]", "ESC[0m", "ready">>,
      <<"at", "[ERROR]">> }

\* strip(): the line without its ANSI colour sequences
Strip(line) == SelectSeq(line, LAMBDA t : t \notin AnsiTokens)

\* what /\[(DEBUG|INFO|WARN|WARNING|ERROR)\]/i captures in a token, in upper
\* case, or "none" when the token does not match
TagOf(token) ==
    IF token \in {"[DEBUG]", "[debug]"} THEN "DEBUG"
    ELSE IF token \in {"[INFO]", "[info]"} THEN "INFO"
    ELSE IF token \in {"[WARN]", "[warn]"} THEN "WARN"
    ELSE IF token \in {"[WARNING]", "[warning]"} THEN "WARNING"
    ELSE IF token \in {"[ERROR]", "[error]"} THEN "ERROR"
    ELSE "none"

\* getLogLevel(): the capture of the first match in the line, or "none" (null)
getLogLevel(line) ==
    LET hits == {k \in 1 .. Len(line) : TagOf(line[k]) # "none"}
    IN IF hits = {} THEN "none"
       ELSE TagOf(line[CHOOSE k \in hits : \A j \in hits : k <= j])

\* the filter of the log view: a line without a level is kept, another one is
\* kept when the set of enabled levels has its level
Shown(line, levels) ==
    LET level == getLogLevel(Strip(line))
    IN IF level = "none" THEN TRUE ELSE level \in levels

Filtered(lines, levels) == SelectSeq(lines, LAMBDA l : Shown(l, levels))

\* const filtered = useMemo(..., [logs, enabledLevels])
filtered == Filtered(logs, enabledLevels)

\* mutant: checking a level does not add it
ToggleLevels_NeverAdds(prev, level, checked) == prev \ {level}

\* the update of enabledLevels by a level checkbox
ToggleLevels(prev, level, checked) ==
    IF checked THEN prev \cup {level} ELSE prev \ {level}

\* onCheckedChange of the checkbox of a level
ToggleLevel ==
    /\ \E level \in LOG_LEVELS, checked \in BOOLEAN :
          enabledLevels' = ToggleLevels(enabledLevels, level, checked)
    /\ UNCHANGED <<logs, outsideLogView>>

\* delivery of a log-message event while the log view is shown
ViewLogMessage ==
    /\ Len(logs) < MaxViewLogs
    /\ \E l \in ViewLogLines : logs' = Append(logs, l)
    /\ UNCHANGED <<enabledLevels, outsideLogView>>

\* the log view starts from the set of levels it saved
InitLogs ==
    /\ InitButton /\ InitDialog /\ InitSettings /\ InitOnboarding /\ InitSession
    /\ InitAuth
    /\ obTheme = "system"
    /\ enabledLevels \in SUBSET LOG_LEVELS

NextLogs ==
    \/ ViewLogMessage
    \/ ClearLogs
    \/ ToggleLevel

SpecLogs == InitLogs /\ [][NextLogs]_vars

\* ------------------------------------------------------- the proxy error dialog

Severities == {"info", "warning", "error", "critical"}

\* payloads of proxy-error used as inputs
ProxyErrorPayloads ==
    { [severity |-> sv, message |-> m, suggestion |-> "restart"] :
          sv \in Severities, m \in {"crashed", "timeout"} }

\* mutant: a warning is shown too
Blocking_AlsoWarning(severity) == severity \in {"warning", "error", "critical"}

\* the severities the proxy-error listener keeps
Blocking(severity) == severity \in {"error", "critical"}

\* delivery of a proxy-error event
ProxyErrorEvent ==
    /\ \E e \in ProxyErrorPayloads :
          /\ proxyError' = IF Blocking(e.severity) THEN <<e>> ELSE proxyError
          /\ evSinceClose' = evSinceClose \cup {e.severity}
    /\ UNCHANGED outsideDialog

\* <ProxyErrorDialog open={!!proxyError} error={proxyError}>, which renders
\* nothing without an error
DialogOpen == proxyError # <<>>

\* onOpenChange of the dialog: the user closes it
CloseErrorDialog ==
    /\ DialogOpen
    /\ proxyError' = <<>>
    /\ evSinceClose' = {}
    /\ UNCHANGED outsideDialog

\* the launch button's listeners and its error dialog, without clicks
NextDialog ==
    \/ PollStatus
    \/ StatusEvent
    \/ LaunchedCfgResolve
    \/ ProxyErrorEvent
    \/ CloseErrorDialog

SpecDialog == Init /\ [][NextDialog]_vars

\* a click on a tab of the action rail (not a step of Spec, in which the
\* user leaves the tabs alone)
UserToggleTab ==
    /\ UNCHANGED outsideButton
    /\ \E t \in TabIds : activeTab' = ToggleTab(activeTab, t)
    /\ UNCHANGED <<state, busy, statusText, progress, user, userPoll, statusPoll,
                   logs, mountTab, inv, pendingLaunched, lastEv>>

\* the launcher starts with any saved tab active
InitTabs ==
    /\ \E tab \in TabIds : InitButtonAt(tab, MaxClicks)
    /\ InitDialog /\ InitLogView /\ InitSettings /\ InitOnboarding /\ InitSession
    /\ InitAuth
    /\ obTheme = "system"

\* the status listener of the launch button while the user moves between
\* the tabs
NextTabs ==
    \/ PollStatus
    \/ StatusEvent
    \/ LaunchedCfgResolve
    \/ UserToggleTab

SpecTabs == InitTabs /\ [][NextTabs]_vars

Next ==
    \/ PollUser
    \/ PollStatus
    \/ Click
    \/ \E i \in Clicks : StatusResolve(i)
    \/ \E i \in Clicks : CfgStartResolve(i)
    \/ \E i \in Clicks : LaunchResolve(i)
    \/ \E i \in Clicks : StopResolve(i)
    \/ \E i \in Clicks : CfgStopResolve(i)
    \/ StatusEvent
    \/ LaunchedCfgResolve
    \/ ProgressEvent
    \/ LogMessage
    \/ ClearLogs

Spec == Init /\ [][Next]_vars

\* the launcher starts; the model keeps the invocations of clicks that race
InitRace ==
    /\ \E tab \in SavedTabs : InitButtonAt(tab, MaxRacing)
    /\ InitDialog /\ InitLogView /\ InitSettings /\ InitOnboarding /\ InitSession
    /\ InitAuth
    /\ obTheme = "system"

\* clicks on the launch button and status events, without progress events
\* and log lines
NextRace ==
    \/ PollUser
    \/ PollStatus
    \/ Click
    \/ \E i \in Clicks : StatusResolve(i)
    \/ \E i \in Clicks : CfgStartResolve(i)
    \/ \E i \in Clicks : LaunchResolve(i)
    \/ \E i \in Clicks : StopResolve(i)
    \/ \E i \in Clicks : CfgStopResolve(i)
    \/ StatusEvent
    \/ LaunchedCfgResolve

SpecRace == InitRace /\ [][NextRace]_vars

TypeOK ==
    /\ state \in ProxyStates
    /\ busy \in BOOLEAN
    /\ statusText \in {"null", "Downloading", "Error"}
    /\ Len(progress) <= 1
    /\ Len(user) <= 1
    /\ activeTab \in TabIds
    /\ pendingLaunched \in 0 .. MaxPending

\* ------------------------------------------------------- the settings view

\* the settings of the model that the view has a switch for
SettingKeys == {"openLogsOnLaunch", "receiveBetaReleases"}

\* what the get_user effect of the settings view can set: null (a rejection
\* or no data), a user without permissions, a tester
SettingsUsers == {"null", "member", "tester"}

\* hasPerm(user, "tester") || ... : the user may see the beta switch
isBetaEligible == sUser = "tester"

\* if (!config || !user): the view shows the spinner
Loading == sConfig = <<>> \/ sUser = "null"

\* a modal dialog of the settings view is open, which keeps clicks from the
\* switches behind it
ModalOpen == enableBetaDialogOpen \/ restartPending

\* the mount effect invoke("get_user") of the settings view settled
SettingsUserSettled ==
    /\ sUserLoad = "pending"
    /\ sUserLoad' = "done"
    /\ \E u \in SettingsUsers : sUser' = u
    /\ UNCHANGED <<sConfig, sCfgLoad, savingKey, writes, lastSettled, lastWritten,
                   betaVars, restartVars, outsideSettings>>

\* what the config load effect sets: .then(setConfig(cfg)), .catch(setConfig(defaultSettings))
LoadedConfig(r) == IF r.kind = Throw THEN defaultSettings ELSE r

\* the mount effect configApi.get() of the settings view settled
SettingsConfigLoaded ==
    /\ sCfgLoad = "pending"
    /\ sCfgLoad' = "done"
    /\ \E r \in ConfigResults : sConfig' = <<LoadedConfig(r)>>
    /\ lastWritten' = sConfig'
    /\ UNCHANGED <<sUser, sUserLoad, savingKey, writes, lastSettled, betaVars,
                   restartVars, outsideSettings>>

\* updateSetting(key, value) up to its await: the optimistic update, savingKey,
\* and the call of set_config_key, which keeps the config of the render that
\* called it for the rollback.  Without a config it returns at once.
UpdateSettingStart(key, value) ==
    IF sConfig = <<>>
    THEN UNCHANGED <<sConfig, savingKey, writes>>
    ELSE /\ [key |-> key, value |-> value, snapshot |-> sConfig[1]] \notin writes
         /\ sConfig' = <<[sConfig[1] EXCEPT ![key] = value]>>
         /\ savingKey' = key
         /\ writes' = writes \cup {[key |-> key, value |-> value, snapshot |-> sConfig[1]]}

\* mutant: the rollback restores the failed key only
Rollback_OnlyFailedKey(current, w) == [current EXCEPT ![w.key] = w.snapshot[w.key]]

\* catch { setConfig(config) }: the config the rollback sets
Rollback(current, w) == w.snapshot

\* the effects of [open] of the restart dialog, run when it opens: the
\* countdown restarts and checkProxy() is called
RestartOpened ==
    /\ restartPending' = TRUE
    /\ rCountdown' = RestartCountdown
    /\ notNowEnabled' = FALSE
    /\ rCheck' = "pending"
    /\ UNCHANGED <<rLoading, proxyRunning, rPc>>

\* settingDef?.restartRequired: no setting is declared with it
RestartRequired(key) == FALSE

\* the set_config_key call of an updateSetting resolved or rejected; after a
\* write of a restartRequired setting that resolved, the restart dialog opens
WriteSettled ==
    /\ \E w \in writes, r \in {Ok, Throw} :
          /\ writes' = writes \ {w}
          /\ sConfig' = IF r = Throw THEN <<Rollback(sConfig[1], w)>> ELSE sConfig
          /\ lastSettled' = r
          /\ lastWritten' = IF r = Ok
                            THEN <<[lastWritten[1] EXCEPT ![w.key] = w.value]>>
                            ELSE lastWritten
          /\ IF r = Ok /\ RestartRequired(w.key) /\ ~restartPending
             THEN RestartOpened
             ELSE UNCHANGED restartVars
    /\ savingKey' = "null"
    /\ UNCHANGED <<sUser, sUserLoad, sCfgLoad, betaVars, outsideSettings>>

\* the switch of a setting of the General section is disabled while its key is saved
isDisabled(key) == sConfig = <<>> \/ savingKey = key

\* a click on the switch of "Open Logs on Launch"
SwitchSetting ==
    /\ ~Loading /\ ~ModalOpen
    /\ ~isDisabled("openLogsOnLaunch")
    /\ Cardinality(writes) < MaxWrites
    /\ UpdateSettingStart("openLogsOnLaunch", ~sConfig[1].openLogsOnLaunch)
    /\ UNCHANGED <<sUser, sUserLoad, sCfgLoad, lastSettled, lastWritten, betaVars, restartVars,
                   outsideSettings>>

\* the effects of [open] of the Enable Beta dialog, run when it opens
BetaOpened ==
    /\ enableBetaDialogOpen' = TRUE
    /\ betaCountdown' = BetaCountdown
    /\ continueEnabled' = FALSE

\* a click on the switch "Receive Beta Releases": switching on opens the
\* Enable Beta dialog, switching off is written at once
BetaSwitch ==
    /\ ~Loading /\ ~ModalOpen
    /\ isBetaEligible
    /\ IF ~sConfig[1].receiveBetaReleases
       THEN /\ pendingBetaValue' = <<TRUE>>
            /\ BetaOpened
            /\ UNCHANGED <<sConfig, savingKey, writes>>
       ELSE /\ Cardinality(writes) < MaxWrites
            /\ UpdateSettingStart("receiveBetaReleases", FALSE)
            /\ UNCHANGED betaVars
    /\ UNCHANGED <<sUser, sUserLoad, sCfgLoad, lastSettled, lastWritten, restartVars,
                   outsideSettings>>

\* a tick of the interval of the Enable Beta dialog, which runs while the
\* dialog is open and until the countdown has reached 0
BetaTick ==
    /\ enableBetaDialogOpen /\ betaCountdown > 0
    /\ betaCountdown' = IF betaCountdown <= 1 THEN 0 ELSE betaCountdown - 1
    /\ continueEnabled' = IF betaCountdown <= 1 THEN TRUE ELSE continueEnabled
    /\ UNCHANGED <<enableBetaDialogOpen, pendingBetaValue, settingsVars, restartVars,
                   outsideSettings>>

\* Nevermind, or the dialog closed by its own controls: onOpenChange(false)
BetaClose ==
    /\ enableBetaDialogOpen
    /\ enableBetaDialogOpen' = FALSE
    /\ UNCHANGED <<pendingBetaValue, betaCountdown, continueEnabled, settingsVars,
                   restartVars, outsideSettings>>

\* mutant: the Continue button is never disabled
ContinueDisabled_Never == FALSE

\* disabled={!continueEnabled} of the Continue button
ContinueDisabled == ~continueEnabled

\* a click on Continue: handleContinue closes the dialog and calls onContinue,
\* which opens the restart dialog and writes the pending value
BetaContinue ==
    /\ enableBetaDialogOpen
    /\ ~ContinueDisabled
    /\ enableBetaDialogOpen' = FALSE
    /\ UNCHANGED <<betaCountdown, continueEnabled>>
    /\ IF pendingBetaValue # <<>>
       THEN /\ Cardinality(writes) < MaxWrites
            /\ IF restartPending THEN UNCHANGED restartVars ELSE RestartOpened
            /\ UpdateSettingStart("receiveBetaReleases", pendingBetaValue[1])
            /\ pendingBetaValue' = <<>>
       ELSE UNCHANGED <<pendingBetaValue, sConfig, savingKey, writes, restartVars>>
    /\ UNCHANGED <<sUser, sUserLoad, sCfgLoad, lastSettled, lastWritten, outsideSettings>>

\* ------------------------------------------------------- the restart dialog

\* a tick of the interval of the restart dialog
RestartTick ==
    /\ restartPending /\ rCountdown > 0
    /\ rCountdown' = IF rCountdown <= 1 THEN 0 ELSE rCountdown - 1
    /\ notNowEnabled' = IF rCountdown <= 1 THEN TRUE ELSE notNowEnabled
    /\ UNCHANGED <<restartPending, rLoading, proxyRunning, rCheck, rPc, settingsVars,
                   betaVars, outsideSettings>>

\* checkProxy() of the open dialog settled; closing the dialog cancels it
CheckProxySettled ==
    /\ rCheck = "pending"
    /\ rCheck' = "none"
    /\ \E r \in {"true", "false", Throw} : proxyRunning' = (r = "true")
    /\ UNCHANGED <<restartPending, rLoading, rCountdown, notNowEnabled, rPc,
                   settingsVars, betaVars, outsideSettings>>

\* mutant: the dialog can be dismissed at any time
CanClose_Always == TRUE

\* const canClose, and the disabled attribute of Not Now
CanClose == notNowEnabled /\ ~rLoading

\* Not Now, the close button, escape or a click outside: onOpenChange(false)
NotNow ==
    /\ restartPending
    /\ CanClose
    /\ restartPending' = FALSE
    /\ rCheck' = "none"
    /\ UNCHANGED <<rLoading, proxyRunning, rCountdown, notNowEnabled, rPc,
                   settingsVars, betaVars, outsideSettings>>

\* a click on Restart Now: handleRestart() up to its first await
RestartNow ==
    /\ restartPending
    /\ ~rLoading
    /\ rLoading' = TRUE
    /\ rPc' = "status"
    /\ UNCHANGED <<restartPending, proxyRunning, rCountdown, notNowEnabled, rCheck,
                   settingsVars, betaVars, outsideSettings>>

\* where handleRestart() goes when the call it awaits at `pc` settles with r:
\* stop_proxy after a status of true, else relaunch(); a rejection ends it
RestartStep(pc, r) ==
    IF r = Throw THEN "failed"
    ELSE IF pc = "status" THEN (IF r = "true" THEN "stop" ELSE "relaunch")
    ELSE IF pc = "stop" THEN "relaunch"
    ELSE "relaunched"

\* the call handleRestart() awaits settled
RestartSettled ==
    /\ rPc \in {"status", "stop", "relaunch"}
    /\ \E r \in (IF rPc = "status" THEN {"true", "false", Throw} ELSE {Ok, Throw}) :
          rPc' = RestartStep(rPc, r)
    /\ UNCHANGED <<restartPending, rLoading, proxyRunning, rCountdown, notNowEnabled,
                   rCheck, settingsVars, betaVars, outsideSettings>>

NextSettings ==
    \/ SettingsUserSettled
    \/ SettingsConfigLoaded
    \/ SwitchSetting
    \/ BetaSwitch
    \/ BetaTick
    \/ BetaClose
    \/ BetaContinue
    \/ WriteSettled
    \/ RestartTick
    \/ CheckProxySettled
    \/ NotNow
    \/ RestartNow
    \/ RestartSettled

SpecSettings == Init /\ [][NextSettings]_vars

\* ------------------------------------------------------- the onboarding

\* texts of the token input used as inputs
TokenTexts == {"", "eyJ.good", "eyJ.bad"}

\* mutant: the welcome timeout is never cleared
WelcomeTimerArmed_NeverCleared == ~onboarded

\* the timeout of the welcome step runs from the effect of [step] that found
\* step === "welcome" until the cleanup of that effect
WelcomeTimerArmed == ~onboarded /\ step = "welcome"

\* onWelcome() of a render in which hasValidToken and loading had these values
OnWelcome(valid, loading) == IF valid = "true" /\ ~loading THEN "theme" ELSE "token"

\* the mount effect invoke("token_exists") settled:
\* .then(setHasValidToken).finally(() => setLoading(false))
TokenExistsSettled ==
    /\ ~onboarded /\ tokenCheck = "pending"
    /\ tokenCheck' = "done"
    /\ \E r \in {"true", "false", Throw} :
          hasValidToken' = IF r = Throw THEN hasValidToken ELSE r
    /\ obLoading' = FALSE
    /\ UNCHANGED <<step, obToken, actionLoading, actionError, obTheme, verifying,
                   onboarded, outsideOnboarding>>

\* the timeout of the welcome step fired: onWelcome() of the render that
\* started it, the first one, in which hasValidToken is null and loading true
WelcomeTimeout ==
    /\ WelcomeTimerArmed
    /\ step' = OnWelcome("null", TRUE)
    /\ UNCHANGED <<hasValidToken, obToken, obLoading, actionLoading, actionError,
                   obTheme, tokenCheck, verifying, onboarded, outsideOnboarding>>

\* a click on the welcome title: onWelcome() of the current render
WelcomeClick ==
    /\ ~onboarded /\ ~obLoading /\ step = "welcome"
    /\ step' = OnWelcome(hasValidToken, obLoading)
    /\ UNCHANGED <<hasValidToken, obToken, obLoading, actionLoading, actionError,
                   obTheme, tokenCheck, verifying, onboarded, outsideOnboarding>>

\* typing in the token input, which is disabled while actionLoading
TypeToken ==
    /\ ~onboarded /\ ~obLoading /\ step = "token" /\ ~actionLoading
    /\ \E t \in TokenTexts : obToken' = t
    /\ actionError' = FALSE
    /\ UNCHANGED <<step, hasValidToken, obLoading, actionLoading, obTheme, tokenCheck,
                   verifying, onboarded, outsideOnboarding>>

\* handleVerify() up to its await, called by the Continue button (disabled on
\* actionError or actionLoading) or by Enter in the input (with a token and
\* not actionLoading); without a token it returns at once
HandleVerify ==
    /\ ~onboarded /\ ~obLoading /\ step = "token"
    /\ ~actionLoading
    /\ \E byEnter \in BOOLEAN : IF byEnter THEN obToken # "" ELSE ~actionError
    /\ IF obToken = ""
       THEN UNCHANGED <<actionError, actionLoading, verifying>>
       ELSE actionError' = FALSE /\ actionLoading' = TRUE /\ verifying' = TRUE
    /\ UNCHANGED <<step, hasValidToken, obToken, obLoading, obTheme, tokenCheck,
                   onboarded, outsideOnboarding>>

\* the step handleVerify() sets after a successful verify_token
VerifiedStep == "theme"

\* verify_token settled: success, a response without success, or a rejection
VerifySettled ==
    /\ ~onboarded /\ verifying
    /\ verifying' = FALSE
    /\ actionLoading' = FALSE
    /\ \E r \in {"success", "failure", Throw} :
          IF r = "success"
          THEN hasValidToken' = "true" /\ step' = VerifiedStep /\ UNCHANGED actionError
          ELSE actionError' = TRUE /\ UNCHANGED <<hasValidToken, step>>
    /\ UNCHANGED <<obToken, obLoading, obTheme, tokenCheck, onboarded, outsideOnboarding>>

\* a click on a theme of the theme step
PickTheme ==
    /\ ~onboarded /\ ~obLoading /\ step = "theme"
    /\ \E t \in {"dark", "light"} : obTheme' = t
    /\ UNCHANGED <<step, hasValidToken, obToken, obLoading, actionLoading, actionError,
                   tokenCheck, verifying, onboarded, outsideOnboarding>>

\* Continue of the theme step
ThemeContinue ==
    /\ ~onboarded /\ ~obLoading /\ step = "theme"
    /\ step' = "done"
    /\ UNCHANGED <<hasValidToken, obToken, obLoading, actionLoading, actionError,
                   obTheme, tokenCheck, verifying, onboarded, outsideOnboarding>>

\* the timeout of the done step fired: onFinish() sets the launcher onboarded,
\* which unmounts the onboarding
DoneTimeout ==
    /\ ~onboarded /\ step = "done"
    /\ onboarded' = TRUE
    /\ UNCHANGED <<step, hasValidToken, obToken, obLoading, actionLoading, actionError,
                   obTheme, tokenCheck, verifying, outsideOnboarding>>

\* the launcher starts, not onboarded, with any theme
InitOnboardingSpec ==
    /\ InitButton /\ InitDialog /\ InitLogView /\ InitSettings /\ InitOnboarding
    /\ InitSession /\ InitAuth

NextOnboarding ==
    \/ TokenExistsSettled
    \/ WelcomeTimeout
    \/ WelcomeClick
    \/ TypeToken
    \/ HandleVerify
    \/ VerifySettled
    \/ PickTheme
    \/ ThemeContinue
    \/ DoneTimeout

SpecOnboarding == InitOnboardingSpec /\ [][NextOnboarding]_vars

\* the place of a step in the order welcome, token, theme, done
StepRank(st) ==
    IF st = "welcome" THEN 0 ELSE IF st = "token" THEN 1 ELSE IF st = "theme" THEN 2 ELSE 3

\* ------------------------------------------------------- logout and unmount

\* The shell, and with it the launch button and the user button, is rendered
\* while the launcher is onboarded.  A component that has unmounted has no
\* state left to set: the setters a late continuation calls do nothing.

FreeLogouts == {i \in Logouts : lo[i].pc \in Ended}

\* a click on Log out, which is never disabled: handleLogout() up to its
\* first await
LogoutClick ==
    /\ onboarded
    /\ FreeLogouts # {}
    /\ LET i == CHOOSE k \in FreeLogouts : \A j \in FreeLogouts : k <= j
       IN lo' = [lo EXCEPT ![i] = [NoLogout EXCEPT !.pc = "status"]]
    /\ isLoggingOut' = TRUE
    /\ lateCh' = "none"
    /\ UNCHANGED <<mounted, subs, tokenStored, buttonVars, dialogVars, onboardingVars,
                   outsideSession>>

\* mutant: a failure of delete_token is not noticed
LogoutStep_IgnoresDeleteFailure(pc, r) ==
    IF pc = "delete" THEN "done"
    ELSE IF r = Throw THEN "failed"
    ELSE IF pc = "status" THEN (IF r = "true" THEN "stop" ELSE "delete")
    ELSE "delete"

\* where handleLogout() goes when the call it awaits at `pc` settles with r:
\* stop_proxy after a status of true, else delete_token; after delete_token
\* the end of the try block; a rejection goes to the catch block
LogoutStep(pc, r) ==
    IF r = Throw THEN "failed"
    ELSE IF pc = "status" THEN (IF r = "true" THEN "stop" ELSE "delete")
    ELSE IF pc = "stop" THEN "delete"
    ELSE "done"

\* mutant: the cleanup of the listener effects unlistens nothing
Cleanup_KeepsListening(sub) == sub

\* the cleanup of a listener effect, unlisten.then((u) => u()): the
\* subscription is given up once that promise chain has run
Cleanup(sub) == IF sub = "listening" THEN "closing" ELSE sub

\* setToken(null) and setOnboarded(false): the token leaves localStorage and
\* the launcher renders the onboarding instead of the shell, which unmounts
\* the launch button and runs the cleanups of its listener effects
LoggedOut ==
    /\ tokenStored' = FALSE
    /\ onboarded' = FALSE
    /\ mounted' = FALSE
    /\ subs' = [ch \in Channels |-> Cleanup(subs[ch])]

\* the call invocation i of handleLogout() awaits settled; the finally block
\* clears isLoggingOut when the invocation ends on a mounted user button
LogoutSettled(i) ==
    /\ lo[i].pc \in {"status", "stop", "delete"}
    /\ \E r \in (IF lo[i].pc = "status" THEN {"true", "false", Throw} ELSE {Ok, Throw}) :
          LET next == LogoutStep(lo[i].pc, r) IN
          /\ lo' = [lo EXCEPT ![i].pc = next,
                              ![i].polled = IF lo[i].pc = "status" THEN r ELSE @,
                              ![i].stopped = IF lo[i].pc = "stop" THEN r ELSE @,
                              ![i].deleted = IF lo[i].pc = "delete" THEN r ELSE @]
          /\ IF next = "done"
             THEN LoggedOut
             ELSE UNCHANGED <<tokenStored, onboarded, mounted, subs>>
          /\ isLoggingOut' =
                IF next \in {"done", "failed"} /\ onboarded THEN FALSE ELSE isLoggingOut
    /\ lateCh' = "none"
    /\ UNCHANGED <<buttonVars, dialogVars, outsideSession>>
    /\ UNCHANGED <<step, hasValidToken, obToken, obLoading, actionLoading, actionError,
                   obTheme, tokenCheck, verifying>>

\* the promise chain of a cleanup has run: the handler of the channel is gone
UnlistenSettled(ch) ==
    /\ subs[ch] = "closing"
    /\ subs' = [subs EXCEPT ![ch] = "off"]
    /\ lateCh' = "none"
    /\ UNCHANGED <<mounted, tokenStored, isLoggingOut, lo, buttonVars,
                   dialogVars, onboardingVars, outsideSession>>

\* the handler of channel ch can still be called
Subscribed(ch) == subs[ch] # "off"

\* delivery of an updater:status event to the handler of the unmounted button:
\* its setters do nothing; a launched event still starts a config read
LateStatusEvent ==
    /\ ~mounted /\ Subscribed("updater:status")
    /\ \E e \in StatusEvents :
          /\ e = "launched" => pendingLaunched < MaxPending
          /\ pendingLaunched' = IF e = "launched" THEN pendingLaunched + 1
                                ELSE pendingLaunched
    /\ lateCh' = "updater:status"
    /\ UNCHANGED <<state, busy, statusText, progress, user, userPoll, statusPoll, logs,
                   activeTab, mountTab, inv, lastEv>>
    /\ UNCHANGED <<mounted, subs, tokenStored, isLoggingOut, lo, dialogVars,
                   onboardingVars, outsideSession>>

\* the config read of a "launched" handler resolved after the unmount: the
\* handler still toggles the tab of the tabs provider, its setters do nothing
LateLaunchedCfgResolve ==
    /\ ~mounted
    /\ pendingLaunched > 0
    /\ pendingLaunched' = pendingLaunched - 1
    /\ \E cfg \in ConfigResults :
          activeTab' = IF cfg.kind # Throw /\ cfg.openLogsOnLaunch /\ mountTab # "logs"
                       THEN ToggleTab(mountTab, "logs")
                       ELSE activeTab
    /\ UNCHANGED <<state, busy, statusText, progress, user, userPoll, statusPoll, logs,
                   mountTab, inv, lastEv>>
    /\ lateCh' = "none"
    /\ UNCHANGED <<mounted, subs, tokenStored, isLoggingOut, lo, dialogVars,
                   onboardingVars, outsideSession>>

\* delivery of an updater:progress event to the handler of the unmounted button
LateProgressEvent ==
    /\ ~mounted /\ Subscribed("updater:progress")
    /\ lateCh' = "updater:progress"
    /\ UNCHANGED <<mounted, subs, tokenStored, isLoggingOut, lo, buttonVars, dialogVars,
                   onboardingVars, outsideSession>>

\* delivery of a proxy-error event to the handler of the unmounted button
LateProxyErrorEvent ==
    /\ ~mounted /\ Subscribed("proxy-error")
    /\ lateCh' = "proxy-error"
    /\ UNCHANGED <<mounted, subs, tokenStored, isLoggingOut, lo, buttonVars, dialogVars,
                   onboardingVars, outsideSession>>

\* the launcher is onboarded and shows the shell; the onboarding will mount
\* in its first state
InitLoggedIn ==
    /\ InitButton /\ InitDialog /\ InitLogView /\ InitSettings /\ InitSession
    /\ InitAuth
    /\ step = "welcome"
    /\ hasValidToken = "null"
    /\ obToken = ""
    /\ obLoading = TRUE
    /\ actionLoading = FALSE
    /\ actionError = FALSE
    /\ obTheme = "system"
    /\ tokenCheck = "pending"
    /\ verifying = FALSE
    /\ onboarded = TRUE

\* the status and progress listeners of the launch button and the logout of
\* the user button; the steps of the launch button are those of the mounted
\* one, and the user leaves the launch button alone
NextSession ==
    \/ LogoutClick
    \/ \E i \in Logouts : LogoutSettled(i)
    \/ \E ch \in Channels : UnlistenSettled(ch)
    \/ mounted /\ PollStatus
    \/ mounted /\ StatusEvent
    \/ mounted /\ LaunchedCfgResolve
    \/ mounted /\ ProgressEvent
    \/ LateStatusEvent
    \/ LateLaunchedCfgResolve
    \/ LateProgressEvent
    \/ LateProxyErrorEvent

SpecSession == InitLoggedIn /\ [][NextSession]_vars

\* ------------------------------------------------------- startDiscordAuth

\* tokens a discord-auth-result event can carry
AuthTokens == {"tokA", "tokB"}

\* payloads of discord-auth-result used as inputs: a success with a token, a
\* failure, a success without a token
AuthPayloads ==
    {[success |-> TRUE, token |-> t] : t \in AuthTokens}
        \cup {[success |-> FALSE, token |-> ""], [success |-> TRUE, token |-> ""]}

\* resolve(o) of the promise startDiscordAuth() returns: the first call settles it
Resolve(o) == IF authOutcome = <<>> THEN <<o>> ELSE authOutcome

AuthFailure == [success |-> FALSE, token |-> ""]

\* a call of startDiscordAuth(): the executor runs up to its await of listen()
StartDiscordAuth ==
    /\ aPc = "none"
    /\ aPc' = "listen"
    /\ UNCHANGED <<aListening, aHandlers, authOutcome, verified, saved, authFailed,
                   outsideAuth>>

\* listen() settled: the listener is registered and start_discord_signin is
\* called, or the catch block resolves with a failure
ListenSettled ==
    /\ aPc = "listen"
    /\ \E r \in {Ok, Throw} :
          IF r = Ok
          THEN /\ aPc' = "signin"
               /\ aListening' = TRUE
               /\ UNCHANGED <<authOutcome, authFailed>>
          ELSE /\ aPc' = "failed"
               /\ authOutcome' = Resolve(AuthFailure)
               /\ authFailed' = TRUE
               /\ UNCHANGED aListening
    /\ UNCHANGED <<aHandlers, verified, saved, outsideAuth>>

\* start_discord_signin settled: the executor ends, or the catch block
\* unlistens and resolves with a failure
SigninSettled ==
    /\ aPc = "signin"
    /\ \E r \in {Ok, Throw} :
          IF r = Ok
          THEN /\ aPc' = "started"
               /\ UNCHANGED <<aListening, authOutcome, authFailed>>
          ELSE /\ aPc' = "failed"
               /\ aListening' = FALSE
               /\ authOutcome' = Resolve(AuthFailure)
               /\ authFailed' = TRUE
    /\ UNCHANGED <<aHandlers, verified, saved, outsideAuth>>

FreeHandlers == {k \in AuthEvents : aHandlers[k].pc = "none"}

\* delivery of a discord-auth-result event to the registered listener: with
\* success and a token the handler calls verify_token and suspends, else it
\* resolves with a failure and unlistens
AuthResultEvent ==
    /\ aListening
    /\ FreeHandlers # {}
    /\ \E e \in AuthPayloads :
          LET k == CHOOSE x \in FreeHandlers : \A y \in FreeHandlers : x <= y IN
          IF e.success /\ e.token # ""
          THEN /\ aHandlers' = [aHandlers EXCEPT ![k] = [pc |-> "verify", token |-> e.token]]
               /\ UNCHANGED <<aListening, authOutcome, authFailed>>
          ELSE /\ aHandlers' = [aHandlers EXCEPT ![k] = [pc |-> "done", token |-> e.token]]
               /\ authOutcome' = Resolve(AuthFailure)
               /\ authFailed' = TRUE
               /\ aListening' = FALSE
    /\ UNCHANGED <<aPc, verified, saved, outsideAuth>>

\* verify_token of handler k settled: on success save_token is called, else
\* the handler resolves with a failure and unlistens
AuthVerifySettled(k) ==
    /\ aHandlers[k].pc = "verify"
    /\ \E r \in {"success", "failure", Throw} :
          IF r = "success"
          THEN /\ aHandlers' = [aHandlers EXCEPT ![k].pc = "save"]
               /\ verified' = verified \cup {aHandlers[k].token}
               /\ UNCHANGED <<aListening, authOutcome, authFailed>>
          ELSE /\ aHandlers' = [aHandlers EXCEPT ![k].pc = "done"]
               /\ authOutcome' = Resolve(AuthFailure)
               /\ authFailed' = TRUE
               /\ aListening' = FALSE
               /\ UNCHANGED verified
    /\ UNCHANGED <<aPc, saved, outsideAuth>>

\* save_token of handler k settled: the handler resolves with the token, or
\* with a failure, and unlistens
AuthSaveSettled(k) ==
    /\ aHandlers[k].pc = "save"
    /\ aHandlers' = [aHandlers EXCEPT ![k].pc = "done"]
    /\ aListening' = FALSE
    /\ \E r \in {Ok, Throw} :
          IF r = Ok
          THEN /\ saved' = saved \cup {aHandlers[k].token}
               /\ authOutcome' = Resolve([success |-> TRUE, token |-> aHandlers[k].token])
               /\ UNCHANGED authFailed
          ELSE /\ authOutcome' = Resolve(AuthFailure)
               /\ authFailed' = TRUE
               /\ UNCHANGED saved
    /\ UNCHANGED <<aPc, verified, outsideAuth>>

NextAuth ==
    \/ StartDiscordAuth
    \/ ListenSettled
    \/ SigninSettled
    \/ AuthResultEvent
    \/ \E k \in AuthEvents : AuthVerifySettled(k)
    \/ \E k \in AuthEvents : AuthSaveSettled(k)

SpecAuth == Init /\ [][NextAuth]_vars

\* the events the listener of startDiscordAuth() has handled
Handled == {k \in AuthEvents : aHandlers[k].pc # "none"}

\* ------------------------------------------------------- what is rendered

\* the pulsing ring around the button: {progress && (...)}
RingShown == progress # <<>>

\* const percent: null without progress, else the rounded percentage
percent == IF progress = <<>> THEN <<>> ELSE <<Percent(progress[1])>>

\* the percent bar inside the button: state === "downloading" and
\* {percent && (...)}, where percent is a non-empty string whenever it is not null
PercentShown == state = "downloading" /\ percent # <<>>

\* ------------------------------------------------------- steps of an invocation

\* a click opened invocation i
Started(i) == inv[i].pc \in Ended /\ inv'[i].pc = "status"

\* an awaited call of invocation i rejected
Threw(i) == inv[i].pc \notin Ended /\ inv'[i].pc = "failed"

\* invocation i issued launch_proxy / stop_proxy
LaunchIssued(i) == inv[i].pc = "cfgStart" /\ inv'[i].pc = "launch"
StopIssued(i) == inv[i].pc = "status" /\ inv'[i].pc = "stop"

\* the launch_proxy / stop_proxy of invocation i resolved without an exception
LaunchOk(i) == inv[i].pc = "launch" /\ inv'[i].pc = "done"
StopOk(i) == inv[i].pc = "stop" /\ inv'[i].pc = "cfgStop"

\* the poll of invocation i resolved and handle() took its start branch
StartTaken(i) == inv[i].pc = "status" /\ inv'[i].pc = "cfgStart"

\* a status event that sets the view state, or a launched event, was delivered
\* (the other steps leave lastEv alone or reset it)
StatusDelivered == lastEv' # lastEv /\ lastEv' # "none"

\* a "launched" handler ended: its config read resolved or rejected
LaunchedEnded == pendingLaunched' < pendingLaunched

\* the buffer lost lines: it is no longer an extension of what it was
LinesRemoved == Len(logs') < Len(logs) \/ SubSeq(logs', 1, Len(logs)) # logs

\* a step that empties the buffer and touches nothing of the launch button:
\* the clear button of the log view
UserCleared ==
    /\ logs' = <<>>
    /\ UNCHANGED <<state, busy, statusText, progress, user, userPoll, statusPoll,
                   activeTab, mountTab, inv, pendingLaunched, lastEv>>

\* the write w was issued in this step / settled in this step
WriteIssued(w) == w \notin writes /\ w \in writes'
WriteEnded(w) == w \in writes /\ w \notin writes'

\* w writes `value` to receiveBetaReleases
IsBetaWrite(w, value) == w.key = "receiveBetaReleases" /\ w.value = value

\* ------------------------------------------------------- claims

\* C1 as stated: a click on the running view whose poll answers running shows
\* stopping, and when its stop_proxy has resolved the view shows stopped,
\* whether stop_proxy succeeded or threw.
C1_StoppedHoweverStopEnds ==
    [][\A i \in Clicks :
          inv[i].view = "running" =>
             /\ StopIssued(i) => state' = "stopping"
             /\ (inv[i].pc = "stop" /\ inv'[i].pc # "stop") => state' = "stopped"]_vars

\* C1 amended: a click on the running view whose poll answers running shows
\* stopping; when its stop_proxy has resolved the view shows stopped if
\* stop_proxy succeeded and error if it threw.
C1_StoppedOrErrorAfterStop ==
    [][\A i \in Clicks :
          inv[i].view = "running" =>
             /\ StopIssued(i) => state' = "stopping"
             /\ StopOk(i) => state' = "stopped"
             /\ (inv[i].pc = "stop" /\ Threw(i)) => state' = "error"]_vars

\* C1 witness: the stop_proxy of a click on the running view has succeeded and
\* the view shows stopped.
C1_Witness ==
    \E i \in Clicks :
       inv[i].pc = "cfgStop" /\ inv[i].view = "running" /\ state = "stopped" /\ ~busy

\* C2: an exception of any call awaited by handle() leaves the view at error,
\* busy false and the status string "Error"; the step issues no command, and
\* an invocation that failed does nothing more: only a new click reopens it.
C2_ExceptionLeavesError ==
    [][\A i \in Clicks :
          /\ Threw(i) =>
                /\ state' = "error" /\ busy' = FALSE /\ statusText' = "Error"
                /\ \A j \in Clicks : ~LaunchIssued(j) /\ ~StopIssued(j)
          /\ inv[i].pc = "failed" => (inv'[i] = inv[i] \/ Started(i))
          /\ Started(i) => ~ClickBlocked]_vars

\* C2 witness: an invocation has failed and the view shows the error.
C2_Witness ==
    \E i \in Clicks :
       inv[i].pc = "failed" /\ state = "error" /\ ~busy /\ statusText = "Error"

\* C3: the progress record is non-null, and the ring it renders is shown, only
\* while the view state is downloading.
C3_ProgressOnlyWhileDownloading == RingShown => state = "downloading"

\* C4: once no "launched" handler is waiting for its config read, the view
\* state is the one of the latest status event (checking, downloading, error)
\* that arrived after the last state change made by a user action or the mount
\* poll, whenever the config read of an earlier launched event resolved.
C4_StateFollowsLatestEvent ==
    (pendingLaunched = 0 /\ lastEv \in {"checking", "downloading", "error"})
        => state = lastEv

\* C5: a click while the busy flag is set opens no invocation of handle(), so
\* issues no command, and changes neither the view state, the status string,
\* the busy flag nor the log buffer.
C5_BusyClickIsNoOp ==
    [][(busy /\ (Click \/ \E i \in Clicks : Started(i)))
          => UNCHANGED <<state, statusText, busy, logs, inv>>]_vars

\* C5 witness: the button is shown to a user who may click it, the busy flag is
\* set and a launch_proxy is in flight: busy alone decides that a click is ignored.
C5_Witness ==
    /\ busy
    /\ state # "unknown"
    /\ user = <<[isBanned |-> FALSE]>>
    /\ \E i \in Clicks : inv[i].pc = "launch"

C7_ErrorUntilNewStart ==
    [][(statusPoll = "done" /\ state = "error" /\ state' # "error" /\ ~StatusDelivered)
          => \E i \in Clicks : StartTaken(i) \/ StopIssued(i)]_vars

\* C8 as stated: a click on the running view never issues launch_proxy, and a
\* click on the stopped or error view never issues stop_proxy.
C8_CommandFollowsView ==
    [][\A i \in Clicks :
          /\ inv[i].view = "running" => ~LaunchIssued(i)
          /\ inv[i].view \in {"stopped", "error"} => ~StopIssued(i)]_vars

\* C8 amended: the command follows the answer of the get_proxy_status poll the
\* click makes: stop_proxy is issued only on the answer true, launch_proxy only
\* on the answer false, whatever the view showed when the click came.
C8_CommandFollowsPoll ==
    [][\A i \in Clicks :
          /\ StopIssued(i) => inv'[i].polled = "true"
          /\ StartTaken(i) => inv'[i].polled = "false"
          /\ LaunchIssued(i) => inv[i].polled = "false"]_vars

\* C8 witness: a click on the running view, answered running by the poll, has
\* its stop_proxy in flight.
C8_Witness ==
    \E i \in Clicks :
       inv[i].pc = "stop" /\ inv[i].view = "running" /\ inv[i].polled = "true"

\* C9 as stated: the click itself moves the view to checking or stopping.
C9_ClickSetsStateAtOnce ==
    [][\A i \in Clicks : Started(i) => state' \in {"checking", "stopping"}]_vars

\* C9 amended: the click sets the busy flag and clears the status string and
\* leaves the view state as it was; the view becomes checking (start) or
\* stopping (stop) when the get_proxy_status poll of the click has resolved,
\* before launch_proxy is issued and before stop_proxy has resolved.
C9_StateSetWhenPollResolves ==
    [][\A i \in Clicks :
          /\ Started(i) => (state' = state /\ busy' /\ statusText' = "null")
          /\ StartTaken(i) => state' = "checking"
          /\ StopIssued(i) => state' = "stopping"]_vars

\* C9 witness: a click on the stopped view is waiting for its poll; the busy
\* flag is set and the view still shows stopped.
C9_Witness ==
    \E i \in Clicks :
       inv[i].pc = "status" /\ inv[i].view = "stopped" /\ state = "stopped" /\ busy

\* C10: while the launch_proxy of a start click is in flight, a downloading
\* event shows downloading without progress, an error event shows error, and
\* the handler of a launched event ends with the view running and with
\* progress and busy cleared.
C10_EventsAfterStart ==
    [][(\E i \in Clicks : inv[i].pc = "launch" /\ inv'[i] = inv[i]) =>
          /\ (lastEv # "downloading" /\ lastEv' = "downloading")
                => (state' = "downloading" /\ progress' = <<>> /\ ~PercentShown')
          /\ (lastEv # "error" /\ lastEv' = "error") => state' = "error"
          /\ LaunchedEnded => (state' = "running" /\ ~busy' /\ progress' = <<>>)]_vars

\* C11: when the mount poll of get_proxy_status settles, the view state is the
\* one the poll's outcome gives: running for true, stopped for false, and
\* stopped, never error, for a failed poll.
C11_MountPollSetsRunningOrStopped ==
    [][(statusPoll = "pending" /\ statusPoll' = "done") =>
          /\ state' \in {MountState(r) : r \in {"true", "false", Throw}}
          /\ MountState("true") = "running"
          /\ MountState("false") = "stopped"
          /\ MountState(Throw) = "stopped"
          /\ state' # "error"]_vars

\* C11 witness: the mount poll has settled, nothing else has set the view
\* state, and the view shows stopped.
C11_Witness ==
    /\ statusPoll = "done"
    /\ state = "stopped"
    /\ lastEv = "none"
    /\ pendingLaunched = 0
    /\ \A i \in Clicks : inv[i].pc = "none"

\* C12: the error dialog is open only if a proxy-error event of severity error
\* or critical was received since it was last closed, and then shows that
\* event's payload; the delivery of an event of severity info or warning
\* leaves the dialog as it was.
C12_DialogOnlyForErrorOrCritical ==
    /\ [](DialogOpen =>
             proxyError[1].severity \in evSinceClose \cap {"error", "critical"})
    /\ [][(evSinceClose' \ evSinceClose # {}
               /\ evSinceClose' \ evSinceClose \subseteq {"info", "warning"})
              => proxyError' = proxyError]_vars

\* C12 witness: a warning arrived while the proxy runs and the dialog stayed
\* closed.
C12_Witness == state = "running" /\ evSinceClose = {"warning"} /\ ~DialogOpen

C14_FilterIsPureProjection ==
    /\ [](/\ Filtered(filtered, enabledLevels) = filtered
          /\ \A level \in enabledLevels :
                LET off == ToggleLevels(enabledLevels, level, FALSE)
                    on == ToggleLevels(off, level, TRUE)
                IN on = enabledLevels /\ Filtered(logs, on) = filtered)
    /\ [][enabledLevels' # enabledLevels => logs' = logs]_vars

\* C14 witness: the buffer holds a WARN line, shown after an unleveled line,
\* that unchecking WARN hides.
C14_Witness ==
    /\ "WARN" \in enabledLevels
    /\ Len(logs) = 2
    /\ filtered = logs
    /\ Len(Filtered(logs, ToggleLevels(enabledLevels, "WARN", FALSE))) = 1

\* C15: a line of the buffer is in the filtered view exactly when it has no
\* recognized level tag or the level of its tag is enabled, a line tagged
\* WARNING having the level WARN, so that it is shown whenever WARN is enabled.
C15_VisibleIffLevelEnabled ==
    \A k \in 1 .. Len(logs) :
       LET tag == getLogLevel(Strip(logs[k]))
           level == IF tag = "WARNING" THEN "WARN" ELSE tag
       IN Shown(logs[k], enabledLevels) <=> (level = "none" \/ level \in enabledLevels)

\* C16: the snapshot a write keeps is the local config as it was before its
\* optimistic update, which changes the written key only; when the write
\* fails, the local config after the rollback is that snapshot, whole.
C16_RollbackRestoresSnapshot ==
    [][\A w \in writes \cup writes' :
          /\ WriteIssued(w) =>
                /\ w.snapshot = sConfig[1]
                /\ sConfig'[1] = [sConfig[1] EXCEPT ![w.key] = w.value]
          /\ (WriteEnded(w) /\ lastSettled' = Throw) => sConfig'[1] = w.snapshot
          /\ (WriteEnded(w) /\ lastSettled' = Ok) => sConfig' = sConfig]_vars

\* C16 witness: a write has failed while another one is still in flight, and
\* the rollback has also taken back the optimistic value of the other one.
C16_Witness ==
    /\ lastSettled = Throw
    /\ \E w \in writes : sConfig[1][w.key] # w.value

\* C17: a failed config read leaves the default settings, and once the calls
\* made on mount have settled, whatever their outcome, the view has left the
\* loading indicator.
C17_NeverBlocked == (sCfgLoad = "done" /\ sUserLoad = "done") => ~Loading

\* C19: a write of receiveBetaReleases = true is issued only from the open
\* Enable Beta dialog with its countdown at 0 and Continue enabled; the
\* countdown only goes down by one while the dialog is open, and opening the
\* dialog sets it to 15 with Continue disabled.
C19_BetaGatedByCountdown ==
    [][/\ (\E w \in writes' : WriteIssued(w) /\ IsBetaWrite(w, TRUE)) =>
             (enableBetaDialogOpen /\ betaCountdown = 0 /\ continueEnabled)
       /\ (~enableBetaDialogOpen /\ enableBetaDialogOpen') =>
             (betaCountdown' = BetaCountdown /\ ~continueEnabled')
       /\ (enableBetaDialogOpen \/ ~enableBetaDialogOpen') =>
             /\ betaCountdown' \in {betaCountdown, betaCountdown - 1}
             /\ continueEnabled' => (continueEnabled \/ betaCountdown' = 0)]_vars

\* C19 witness: Continue was clicked after the countdown had run out; the
\* write of true is in flight and the restart dialog is open.
C19_Witness ==
    /\ \E w \in writes : IsBetaWrite(w, TRUE)
    /\ ~enableBetaDialogOpen /\ betaCountdown = 0 /\ continueEnabled
    /\ restartPending

\* C20 as stated: Restart Now can be clicked, and stop_proxy or relaunch is
\* called from the dialog, only after the countdown has reached 0.
C20_RestartGatedByCountdown ==
    [][(rPc' # rPc /\ rPc' \in {"status", "stop", "relaunch"}) => rCountdown = 0]_vars

\* C20 amended: the countdown gates the dismissal: the dialog closes only
\* with the countdown at 0, Not Now enabled and no restart under way, and it
\* opens with the countdown at 5 and Not Now disabled; Restart Now starts
\* the restart whenever the dialog is open and no restart is under way.
C20_DismissalGatedByCountdown ==
    [][/\ (restartPending /\ ~restartPending') =>
             (rCountdown = 0 /\ notNowEnabled /\ ~rLoading)
       /\ (~restartPending /\ restartPending') =>
             (rCountdown' = RestartCountdown /\ ~notNowEnabled')
       /\ (rPc = "none" /\ rPc' # "none") => (restartPending /\ ~rLoading /\ rLoading')]_vars

\* C20 witness: relaunch() has been called before the first tick of the
\* countdown.
C20_Witness == rPc = "relaunch" /\ rCountdown = RestartCountdown /\ restartPending

\* C18: the onboarding step is one of welcome, token, theme, done, and no step
\* of the onboarding moves it to an earlier one in that order.
C18_StepsOnlyForward ==
    /\ [](step \in {"welcome", "token", "theme", "done"})
    /\ [][StepRank(step') >= StepRank(step)]_vars

\* C18 witness: the onboarding went through the token step, whose token was
\* verified, and the theme step, and shows done.
C18_Witness ==
    step = "done" /\ obToken # "" /\ hasValidToken = "true" /\ obTheme = "light"

\* C21: the state changes of status events take effect in the order of the
\* events: when an error event came after a launched event and set the view
\* to error with busy cleared, the end of the launched event's handler leaves
\* the view at error and busy cleared.
C21_ErrorAfterLaunchedStays ==
    [][(LaunchedEnded /\ lastEv = "error" /\ state = "error" /\ ~busy)
          => (state' = "error" /\ ~busy')]_vars

\* C22: once the launch button has unmounted, none of its subscriptions is
\* left listening, and no step, be it the delivery of an updater:status,
\* updater:progress or proxy-error event to a handler not yet unlistened or
\* the end of a launched handler, changes the state of the launch button.
C22_NoMutationAfterUnmount ==
    /\ [](~mounted => \A ch \in Channels : subs[ch] # "listening")
    /\ [][~mounted => UNCHANGED <<state, busy, statusText, progress, proxyError>>]_vars
    /\ [][lateCh' # "none" => (~mounted /\ Subscribed(lateCh'))]_vars

\* C22 witness: a status event was delivered to the unmounted launch button,
\* whose state still is running with a progress record.
C22_Witness ==
    ~mounted /\ lateCh = "updater:status" /\ state = "running" /\ progress # <<>>

\* C27: an invocation of handleLogout() reaches delete_token only after its
\* poll answered false or its stop_proxy resolved, and stop_proxy only after
\* the poll answered true; the stored token and the onboarded flag change only
\* in the step in which a delete_token resolved, and then both are cleared; an
\* invocation whose poll, stop_proxy or delete_token failed ends without
\* changing either.
C27_LogoutOrder ==
    [][/\ \A i \in Logouts :
             /\ (lo[i].pc # "delete" /\ lo'[i].pc = "delete") =>
                   \/ lo[i].pc = "status" /\ lo'[i].polled = "false"
                   \/ lo[i].pc = "stop" /\ lo'[i].polled = "true" /\ lo'[i].stopped = Ok
             /\ (lo[i].pc # "stop" /\ lo'[i].pc = "stop") =>
                   (lo[i].pc = "status" /\ lo'[i].polled = "true")
             /\ (lo[i].pc = "delete" /\ lo'[i].deleted = Ok) =>
                   (~tokenStored' /\ ~onboarded')
             /\ (lo'[i] # lo[i] /\ Throw \in {lo'[i].polled, lo'[i].stopped, lo'[i].deleted}) =>
                   (lo'[i].pc = "failed" /\ UNCHANGED <<tokenStored, onboarded>>)
       /\ (tokenStored' # tokenStored \/ onboarded' # onboarded) =>
             \E i \in Logouts : lo[i].pc = "delete" /\ lo'[i].deleted = Ok]_vars

\* C27 witness: a logout found the proxy running, its stop_proxy resolved, and
\* its delete_token failed: the token is stored and the user onboarded.
C27_Witness ==
    \E i \in Logouts :
       /\ lo[i].pc = "failed" /\ lo[i].polled = "true" /\ lo[i].stopped = Ok
       /\ lo[i].deleted = Throw
       /\ tokenStored /\ onboarded /\ ~isLoggingOut

\* C23: the restart dialog opens only in the step in which the write of a
\* setting resolved, and when the write that enables Receive Beta Releases, or
\* the write of a restartRequired setting, fails and is rolled back, no
\* restart dialog is open.
C23_RestartPromptAfterWrite ==
    [][/\ (~restartPending /\ restartPending') =>
             \E w \in writes : WriteEnded(w) /\ lastSettled' = Ok
       /\ \A w \in writes :
             (/\ WriteEnded(w) /\ lastSettled' = Throw
              /\ (IsBetaWrite(w, TRUE) \/ RestartRequired(w.key)))
                => ~restartPending']_vars

\* C24: when the handler of a launched event has read a config whose
\* openLogsOnLaunch is true, the active tab is logs afterwards, whichever tab
\* was active at the mount and whichever is active now.
C24_LogsTabAfterLaunched ==
    [][\A cfg \in ConfigResults :
          (cfg.kind = "config" /\ cfg.openLogsOnLaunch /\ LaunchedCfgResolved(cfg))
             => activeTab' = "logs"]_vars

\* C25: onboarding leaves the welcome step for the theme step when
\* token_exists has resolved true, so that the token step is not shown, and
\* for the token step only when no valid token is known.
C25_AutoAdvanceSkipsTokenStep ==
    [][(step = "welcome" /\ step' # "welcome") =>
          step' = (IF hasValidToken = "true" THEN "theme" ELSE "token")]_vars

\* C26: startDiscordAuth() resolves with success and a token only if
\* verify_token returned success for that token and save_token completed for
\* it; once a failure case has happened without a token verified and saved,
\* it has resolved without success; and its listener handles the first
\* discord-auth-result event only.
C26_DiscordAuthOutcome ==
    /\ (authOutcome # <<>> /\ authOutcome[1].success) =>
          authOutcome[1].token \in verified \cap saved
    /\ (authFailed /\ verified \cap saved = {}) =>
          (authOutcome # <<>> /\ ~authOutcome[1].success)
    /\ Cardinality(Handled) <= 1

\* the invocations of handle() whose launch_proxy or stop_proxy is in flight
InFlight == {i \in Clicks : CommandAt(inv[i].pc) # "none"}

\* C28: at most one launch_proxy or stop_proxy call of the launch button is in
\* flight at any time, however clicks and status events interleave.
C28_AtMostOneCommandInFlight == Cardinality(InFlight) <= 1

\* C29 (as stated): once all overlapping writes have resolved, the local
\* config holds for every key the value of the last write that succeeded for
\* it, or the value first shown when none succeeded.
C29_OverlapKeepsSucceededWrites ==
    (writes = {} /\ sConfig # <<>>) => sConfig = lastWritten

\* C29: a write that succeeds leaves the local config as it is; a write that
\* fails replaces the whole local config by the snapshot taken before its own
\* optimistic update, whatever other writes have changed or written since.
C29_RollbackDiscardsLaterWrites ==
    [][\A w \in writes :
          /\ (WriteEnded(w) /\ lastSettled' = Ok) =>
                /\ sConfig' = sConfig
                /\ lastWritten'[1] = [lastWritten[1] EXCEPT ![w.key] = w.value]
          /\ (WriteEnded(w) /\ lastSettled' = Throw) =>
                /\ \A k \in SettingKeys : sConfig'[1][k] = w.snapshot[k]
                /\ lastWritten' = lastWritten]_vars

\* C29 witness: all writes have resolved, the last of them succeeded, and the
\* local config differs from the values last written with success.
C29_Witness ==
    /\ writes = {}
    /\ lastSettled = Ok
    /\ sConfig # <<>>
    /\ \E k \in SettingKeys : sConfig[1][k] # lastWritten[1][k]

\* C30: when the mount poll of get_proxy_status resolves after a status
\* event has moved the state out of unknown, the state stays as the event
\* set it.
C30_PollOnlyLeavesUnknown ==
    [][(statusPoll = "pending" /\ statusPoll' = "done" /\ state # "unknown")
          => state' = state]_vars

====
